---- MODULE Spec2Model ----
(***************************************************************************)
(* Model of storm_analysis/sa_library/ia_utilities.c: the embedded k-d     *)
(* tree (kd_insert, kd_nearest, kd_nearest_range), the peak consolidation  *)
(* routines built on it (markDimmerPeaks, markLowSignificancePeaks,        *)
(* nearestKDTree, runningIfHasNeighbors) and the local maxima scanner      *)
(* (findLocalMaxima, isLocalMaxima).                                       *)
(*                                                                         *)
(* Coordinates, heights, radii and intensities are C doubles in the code;  *)
(* the model draws them from small ranges of integers, on which every      *)
(* comparison and sum of squares of the code is exact.  Pointers are node  *)
(* numbers, NULL is 0.  C arrays are functions on 0..n-1.                  *)
(***************************************************************************)
EXTENDS Integers, Sequences, FiniteSets, TLC

VARIABLES
    tree,    \* struct kdtree: dim, root, the allocated kdnodes, rect
    res,     \* struct kdres returned by the last query on tree
    call,    \* the last call on tree: its name, arguments and return value
    x, y,    \* peak table: coordinates of the current peaks
    status,  \* peak table: status of the current peaks
    pcall,   \* the last peak consolidation call: arguments, status on entry, outputs
    images,  \* flmData.images
    taken,   \* flmData.taken
    fcall,   \* the last findLocalMaxima call: arguments and outputs
    free_nodes,   \* head of the list of pooled res_nodes (USE_LIST_NODE_ALLOCATOR)
    alloc_mutex,  \* owner of alloc_mutex, NULL when unlocked
    rnext,        \* res_node.next of the res_nodes malloc has returned
    heap,         \* number of res_nodes malloc has returned
    thr           \* per thread: position in alloc_resnode or free_resnode, its
                  \* local node, and the res_nodes its result sets hold

vars == <<tree, res, call, x, y, status, pcall, images, taken, fcall,
          free_nodes, alloc_mutex, rnext, heap, thr>>

kdVars == <<tree, res, call>>
peakVars == <<x, y, status, pcall>>
flmVars == <<images, taken, fcall>>
poolVars == <<free_nodes, alloc_mutex, rnext, heap, thr>>

----------------------------------------------------------------------------
(* Bounds of the model *)

GridMax == 1        \* point coordinates are drawn from 0..GridMax
MaxPts == 3         \* at most MaxPts calls of kd_insert on tree
MaxRange == 2       \* query radii are drawn from 0..MaxRange

NPeaks == 3         \* number of peaks in the peak table (np, nc)
MaxNew == 2         \* at most MaxNew new peaks or query points in a call (nn, n)
MaxHeight == 3      \* heights are drawn from 1..MaxHeight
MaxSig == 2         \* significances and min_sig are drawn from 1..MaxSig

XSize == 3          \* flmData.xsize
YSize == 3          \* flmData.ysize
ZSize == 1          \* flmData.zsize
MaxBright == 3      \* at most MaxBright pixels of an image stack are above 0
MaxIntensity == 2   \* pixel intensities are drawn from 0..MaxIntensity
MaxMargin == 1      \* flmData.margin is drawn from 0..MaxMargin
MaxNPeaks == 3      \* flmData.n_peaks is drawn from 0..MaxNPeaks
MaxClaimed == 2     \* a new image stack is loaded while fewer pixels than this are claimed

NThreads == 2       \* threads that call alloc_resnode and free_resnode
MaxNodes == 2       \* malloc returns at most MaxNodes res_nodes, then 0

Coord == 0..GridMax
Points == Coord \X Coord
QCoord == -1..(GridMax + 1)     \* query points also lie outside the box of the points
QPoints == QCoord \X QCoord
Ranges == 0..MaxRange

----------------------------------------------------------------------------
(* Constants and macros of the program *)

NULL == 0
Dim == 2

SQ(v) == v * v

fabs(v) == IF v < 0 THEN -v ELSE v

\* The loops "dist_sq += SQ(node->pos[i] - pos[i])" over the dim axes.
RECURSIVE SumSq(_, _, _)
SumSq(p, q, i) ==
    IF i > Dim THEN 0 ELSE SQ(p[i] - q[i]) + SumSq(p, q, i + 1)

DistSq(p, q) == SumSq(p, q, 1)

----------------------------------------------------------------------------
(* Hyperrectangle helpers *)

NullRect == [null |-> TRUE, min |-> [i \in 1..Dim |-> 0], max |-> [i \in 1..Dim |-> 0]]

\* Which allocation of a call fails: "ok" when none does.
AllocOutcomes == {"ok", "node", "pos", "rect", "min", "max"}

hyperrect_create(min, max, alloc) ==
    IF alloc \in {"rect", "min", "max"}
    THEN NullRect
    ELSE [null |-> FALSE, min |-> min, max |-> max]

hyperrect_duplicate(rect, alloc) == hyperrect_create(rect.min, rect.max, alloc)

hyperrect_extend(rect, pos) ==
    [rect EXCEPT
        !.min = [i \in 1..Dim |-> IF pos[i] < rect.min[i] THEN pos[i] ELSE rect.min[i]],
        !.max = [i \in 1..Dim |-> IF pos[i] > rect.max[i] THEN pos[i] ELSE rect.max[i]]]

RECURSIVE RectSum(_, _, _)
RectSum(rect, pos, i) ==
    IF i > Dim THEN 0
    ELSE (IF pos[i] < rect.min[i] THEN SQ(rect.min[i] - pos[i])
          ELSE IF pos[i] > rect.max[i] THEN SQ(rect.max[i] - pos[i])
          ELSE 0) + RectSum(rect, pos, i + 1)

\* Mutation: the distance to the far face of the box instead of the near one.
RECURSIVE RectSumFar(_, _, _)
RectSumFar(rect, pos, i) ==
    IF i > Dim THEN 0
    ELSE (IF pos[i] < rect.min[i] THEN SQ(rect.max[i] - pos[i])
          ELSE IF pos[i] > rect.max[i] THEN SQ(rect.min[i] - pos[i])
          ELSE 0) + RectSumFar(rect, pos, i + 1)

hyperrect_dist_sq_far(rect, pos) == RectSumFar(rect, pos, 1)

hyperrect_dist_sq(rect, pos) == RectSum(rect, pos, 1)

----------------------------------------------------------------------------
(* The tree *)

kd_create(k) == [dim |-> k, root |-> NULL, nodes |-> <<>>, rect |-> NullRect]

\* A struct kdnode ** is the place of a pointer: the root of the tree or the
\* left or right field of a node.
Deref(t, nptr) ==
    IF nptr[2] = "root" THEN t.root
    ELSE IF nptr[2] = "left" THEN t.nodes[nptr[1]].left
    ELSE t.nodes[nptr[1]].right

Store(t, nptr, node) ==
    IF nptr[2] = "root" THEN [t EXCEPT !.root = node]
    ELSE IF nptr[2] = "left" THEN [t EXCEPT !.nodes[nptr[1]].left = node]
    ELSE [t EXCEPT !.nodes[nptr[1]].right = node]

\* Mutation: an equal coordinate goes to the left subtree too.
RECURSIVE insert_rec_le(_, _, _, _, _, _)
insert_rec_le(t, nptr, pos, data, dir, alloc) ==
    IF Deref(t, nptr) = NULL
    THEN IF alloc \in {"node", "pos"}
         THEN [ret |-> -1, t |-> t]
         ELSE LET node == [pos |-> pos, data |-> data, dir |-> dir,
                           left |-> NULL, right |-> NULL]
                  t1 == [t EXCEPT !.nodes = Append(t.nodes, node)]
              IN  [ret |-> 0, t |-> Store(t1, nptr, Len(t1.nodes))]
    ELSE LET id == Deref(t, nptr)
             node == t.nodes[id]
             new_dir == (node.dir + 1) % t.dim
         IN  IF pos[node.dir + 1] <= node.pos[node.dir + 1]
             THEN insert_rec_le(t, <<id, "left">>, pos, data, new_dir, alloc)
             ELSE insert_rec_le(t, <<id, "right">>, pos, data, new_dir, alloc)

RECURSIVE insert_rec(_, _, _, _, _, _)
insert_rec(t, nptr, pos, data, dir, alloc) ==
    IF Deref(t, nptr) = NULL
    THEN IF alloc \in {"node", "pos"}
         THEN [ret |-> -1, t |-> t]
         ELSE LET node == [pos |-> pos, data |-> data, dir |-> dir,
                           left |-> NULL, right |-> NULL]
                  t1 == [t EXCEPT !.nodes = Append(t.nodes, node)]
              IN  [ret |-> 0, t |-> Store(t1, nptr, Len(t1.nodes))]
    ELSE LET id == Deref(t, nptr)
             node == t.nodes[id]
             new_dir == (node.dir + 1) % t.dim
         IN  IF pos[node.dir + 1] < node.pos[node.dir + 1]
             THEN insert_rec(t, <<id, "left">>, pos, data, new_dir, alloc)
             ELSE insert_rec(t, <<id, "right">>, pos, data, new_dir, alloc)

kd_insert(t, pos, data, alloc) ==
    LET r == insert_rec(t, <<NULL, "root">>, pos, data, 0, alloc)
    IN  IF r.ret # 0
        THEN [ret |-> -1, t |-> t]
        ELSE IF r.t.rect.null
             THEN [ret |-> 0, t |-> [r.t EXCEPT !.rect = hyperrect_create(pos, pos, alloc)]]
             ELSE [ret |-> 0, t |-> [r.t EXCEPT !.rect = hyperrect_extend(r.t.rect, pos)]]

----------------------------------------------------------------------------
(* Result sets.  rlist is the list behind the dummy head node, riter the   *)
(* position of the cursor in it (Len + 1 is the null cursor).              *)

NullRes == [null |-> TRUE, rlist |-> <<>>, riter |-> 1, size |-> 0]

RECURSIVE OrderedPlace(_, _, _)
OrderedPlace(list, dist_sq, i) ==
    IF i <= Len(list) /\ list[i].dist_sq < dist_sq
    THEN OrderedPlace(list, dist_sq, i + 1)
    ELSE i

\* The new res_node goes behind the dummy head, or, for dist_sq >= 0, behind
\* the nodes of smaller dist_sq.
rlist_insert(list, item, dist_sq) ==
    LET rnode == [item |-> item, dist_sq |-> dist_sq]
        at == IF dist_sq >= 0 THEN OrderedPlace(list, dist_sq, 1) ELSE 1
    IN  SubSeq(list, 1, at - 1) \o <<rnode>> \o SubSeq(list, at, Len(list))

\* Mutation: the other side is searched only when the query lies strictly
\* more than one unit inside the radius of the splitting plane.
CrossesPlaneNarrow(dx, range) == fabs(dx) + 1 < range

CrossesPlane(dx, range) == fabs(dx) < range

RECURSIVE find_nearest(_, _, _, _, _, _)
find_nearest(t, node, pos, range, list, ordered) ==
    IF node = NULL THEN [ret |-> 0, list |-> list]
    ELSE LET n == t.nodes[node]
             dist_sq == DistSq(n.pos, pos)
             hit == dist_sq <= SQ(range)
             list1 == IF hit
                      THEN rlist_insert(list, node, IF ordered # 0 THEN dist_sq ELSE -1)
                      ELSE list
             added_res == IF hit THEN 1 ELSE 0
             dx == pos[n.dir + 1] - n.pos[n.dir + 1]
             r1 == find_nearest(t, IF dx <= 0 THEN n.left ELSE n.right,
                                pos, range, list1, ordered)
         IN  IF CrossesPlane(dx, range)
             THEN LET r2 == find_nearest(t, IF dx <= 0 THEN n.right ELSE n.left,
                                         pos, range, r1.list, ordered)
                  IN  [ret |-> added_res + r1.ret + r2.ret, list |-> r2.list]
             ELSE [ret |-> added_res + r1.ret, list |-> r1.list]

kd_res_rewind(rset) == [rset EXCEPT !.riter = 1]

kd_res_size(rset) == rset.size

kd_res_next(rset) == [rset EXCEPT !.riter = rset.riter + 1]

kd_res_end(rset) == rset.riter > Len(rset.rlist)

\* The item under the cursor: its data, and its position.
kd_res_item_data(t, rset) ==
    IF rset.riter <= Len(rset.rlist) THEN t.nodes[rset.rlist[rset.riter].item].data ELSE 0

kd_res_item_pos(t, rset) == t.nodes[rset.rlist[rset.riter].item].pos

kd_nearest_range(t, pos, range) ==
    LET r == find_nearest(t, t.root, pos, range, <<>>, 0)
    IN  kd_res_rewind([null |-> FALSE, rlist |-> r.list, riter |-> 1, size |-> r.ret])

\* Mutation: the current node also replaces an equally near best so far.
IsCloserOrEqual(dist_sq, result_dist_sq) == dist_sq <= result_dist_sq

\* "if (dist_sq < *result_dist_sq)" of kd_nearest_i.
IsCloser(dist_sq, result_dist_sq) == dist_sq < result_dist_sq

\* best is the pair (*result, *result_dist_sq); rect is the working copy of
\* the bounding box, sliced for the call and as it was after it.
RECURSIVE kd_nearest_i(_, _, _, _, _)
kd_nearest_i(t, node, pos, best, rect) ==
    LET n == t.nodes[node]
        dir == n.dir + 1
        goLeft == pos[dir] - n.pos[dir] <= 0
        nearer_subtree == IF goLeft THEN n.left ELSE n.right
        farther_subtree == IF goLeft THEN n.right ELSE n.left
        nearer_rect == IF goLeft THEN [rect EXCEPT !.max[dir] = n.pos[dir]]
                       ELSE [rect EXCEPT !.min[dir] = n.pos[dir]]
        farther_rect == IF goLeft THEN [rect EXCEPT !.min[dir] = n.pos[dir]]
                        ELSE [rect EXCEPT !.max[dir] = n.pos[dir]]
        b1 == IF nearer_subtree # NULL
              THEN kd_nearest_i(t, nearer_subtree, pos, best, nearer_rect)
              ELSE best
        dist_sq == DistSq(n.pos, pos)
        b2 == IF IsCloser(dist_sq, b1.dist_sq)
              THEN [result |-> node, dist_sq |-> dist_sq]
              ELSE b1
    IN  IF farther_subtree # NULL /\ hyperrect_dist_sq(farther_rect, pos) < b2.dist_sq
        THEN kd_nearest_i(t, farther_subtree, pos, b2, farther_rect)
        ELSE b2

kd_nearest(t, pos) ==
    IF t.rect.null THEN NullRes
    ELSE LET rect == hyperrect_duplicate(t.rect, "ok")
             guess == [result |-> t.root, dist_sq |-> DistSq(t.nodes[t.root].pos, pos)]
             best == kd_nearest_i(t, t.root, pos, guess, rect)
         IN  IF best.result # NULL
             THEN kd_res_rewind([null |-> FALSE,
                                 rlist |-> rlist_insert(<<>>, best.result, -1),
                                 riter |-> 1, size |-> 1])
             ELSE NullRes

----------------------------------------------------------------------------
(* Peak consolidation *)

\* The peak status values of multi_fit.h.
RUNNING == "RUNNING"
CONVERGED == "CONVERGED"
ERROR == "ERROR"

Status == {RUNNING, CONVERGED, ERROR}

\* The return value of kd_insert is not looked at.
RECURSIVE createKDTreeLoop(_, _, _, _, _)
createKDTreeLoop(kd, xa, ya, n, i) ==
    IF i >= n THEN kd
    ELSE createKDTreeLoop(kd_insert(kd, <<xa[i], ya[i]>>, i, "ok").t, xa, ya, n, i + 1)

createKDTree(xa, ya, n) == createKDTreeLoop(kd_create(Dim), xa, ya, n, 0)

\* Mutation: a neighbor of equal height counts as brighter.
IsBrighterOrEqual(hk, hi) == hk >= hi

\* "if(h[k] > h[i])" of markDimmerPeaks.
IsBrighter(hk, hi) == hk > hi

\* Mutation: every neighbor that is not RUNNING is set to RUNNING.
NeedsRefitNotRunning(s) == s # RUNNING

\* "if (status[k] == CONVERGED)" of the neighbor loops.
NeedsRefit(s) == s = CONVERGED

\* Mutation: a peak of exactly the minimum significance is kept.
IsSignificantOrEqual(s, min_sig) == s >= min_sig

\* "if(sig[i] > min_sig)" of markLowSignificancePeaks.
IsSignificant(s, min_sig) == s > min_sig

\* The loop over set_r: 1 when a listed peak is brighter than peak i.
RECURSIVE IsDimmerLoop(_, _, _, _, _)
IsDimmerLoop(kd, set_r, h, i, j) ==
    IF j >= kd_res_size(set_r) THEN 0
    ELSE LET k == kd_res_item_data(kd, set_r)
         IN  IF IsBrighter(h[k], h[i]) THEN 1
             ELSE IsDimmerLoop(kd, kd_res_next(set_r), h, i, j + 1)

\* The loop over set_n: the listed peaks that are CONVERGED become RUNNING.
RECURSIVE MarkNeighborsLoop(_, _, _, _)
MarkNeighborsLoop(kd, set_n, st, j) ==
    IF j >= kd_res_size(set_n) THEN st
    ELSE LET k == kd_res_item_data(kd, set_n)
         IN  MarkNeighborsLoop(kd, kd_res_next(set_n),
                               IF NeedsRefit(st[k]) THEN [st EXCEPT ![k] = RUNNING] ELSE st,
                               j + 1)

RECURSIVE markDimmerLoop(_, _, _, _, _, _, _, _, _, _)
markDimmerLoop(kd, xa, ya, h, st, removed, r_removal, r_neighbors, np, i) ==
    IF i >= np THEN [status |-> st, removed |-> removed]
    ELSE IF st[i] = ERROR
    THEN markDimmerLoop(kd, xa, ya, h, st, removed, r_removal, r_neighbors, np, i + 1)
    ELSE LET pos == <<xa[i], ya[i]>>
             set_r == kd_nearest_range(kd, pos, r_removal)
         IN  IF kd_res_size(set_r) < 2
             THEN markDimmerLoop(kd, xa, ya, h, st, removed, r_removal, r_neighbors, np, i + 1)
             ELSE IF IsDimmerLoop(kd, set_r, h, i, 0) = 1
             THEN LET set_n == kd_nearest_range(kd, pos, r_neighbors)
                      st1 == MarkNeighborsLoop(kd, set_n, [st EXCEPT ![i] = ERROR], 0)
                  IN  markDimmerLoop(kd, xa, ya, h, st1, removed + 1,
                                     r_removal, r_neighbors, np, i + 1)
             ELSE markDimmerLoop(kd, xa, ya, h, st, removed, r_removal, r_neighbors, np, i + 1)

\* Mutation: the peaks that are ERROR at the end are counted, those that were
\* ERROR on entry included.
markDimmerPeaksCountAll(xa, ya, h, st, r_removal, r_neighbors, np) ==
    LET r == markDimmerLoop(createKDTree(xa, ya, np), xa, ya, h, st, 0,
                            r_removal, r_neighbors, np, 0)
    IN  [r EXCEPT !.removed = Cardinality({i \in 0..(np - 1) : r.status[i] = ERROR})]

markDimmerPeaks(xa, ya, h, st, r_removal, r_neighbors, np) ==
    markDimmerLoop(createKDTree(xa, ya, np), xa, ya, h, st, 0, r_removal, r_neighbors, np, 0)

RECURSIVE markLowSigLoop(_, _, _, _, _, _, _, _, _, _)
markLowSigLoop(kd, xa, ya, sig, st, removed, min_sig, r_neighbors, np, i) ==
    IF i >= np THEN [status |-> st, removed |-> removed]
    ELSE IF st[i] = ERROR \/ IsSignificant(sig[i], min_sig)
    THEN markLowSigLoop(kd, xa, ya, sig, st, removed, min_sig, r_neighbors, np, i + 1)
    ELSE LET pos == <<xa[i], ya[i]>>
             set_n == kd_nearest_range(kd, pos, r_neighbors)
             st1 == MarkNeighborsLoop(kd, set_n, [st EXCEPT ![i] = ERROR], 0)
         IN  markLowSigLoop(kd, xa, ya, sig, st1, removed + 1, min_sig, r_neighbors, np, i + 1)

markLowSignificancePeaks(xa, ya, sig, st, min_sig, r_neighbors, np) ==
    markLowSigLoop(createKDTree(xa, ya, np), xa, ya, sig, st, 0, min_sig, r_neighbors, np, 0)

\* A double of the outputs: v itself, or the square root of v.
Real(v) == [sqrt |-> FALSE, of |-> v]
Sqrt(v) == [sqrt |-> TRUE, of |-> v]

\* The loop over the result set of one query point.  min_dd10 is ten times
\* min_dd, which starts at radius * radius + 0.1.
RECURSIVE nearestLoop(_, _, _, _, _, _, _)
nearestLoop(kd, set, xi, yi, min_i, min_dd10, j) ==
    IF j >= kd_res_size(set) THEN [min_i |-> min_i, min_dd10 |-> min_dd10]
    ELSE LET pos == kd_res_item_pos(kd, set)
             dx == pos[1] - xi
             dy == pos[2] - yi
             dd == dx * dx + dy * dy
         IN  IF 10 * dd < min_dd10
             THEN nearestLoop(kd, kd_res_next(set), xi, yi,
                              kd_res_item_data(kd, set), 10 * dd, j + 1)
             ELSE nearestLoop(kd, kd_res_next(set), xi, yi, min_i, min_dd10, j + 1)

nearestKDTree(kd, xa, ya, radius, n) ==
    LET m == [i \in 0..(n - 1) |->
                 nearestLoop(kd, kd_nearest_range(kd, <<xa[i], ya[i]>>, radius),
                             xa[i], ya[i], -1, 10 * radius * radius + 1, 0)]
    IN  [dist  |-> [i \in 0..(n - 1) |->
                       IF m[i].min_i >= 0 THEN Sqrt(m[i].min_dd10 \div 10) ELSE Real(-1)],
         index |-> [i \in 0..(n - 1) |-> IF m[i].min_i >= 0 THEN m[i].min_i ELSE -1]]

RECURSIVE runningLoop(_, _, _, _, _, _, _)
runningLoop(kd, c_x, c_y, st, radius, nc, i) ==
    IF i >= nc THEN st
    ELSE IF st[i] = RUNNING \/ st[i] = ERROR
    THEN runningLoop(kd, c_x, c_y, st, radius, nc, i + 1)
    ELSE LET set == kd_nearest_range(kd, <<c_x[i], c_y[i]>>, radius)
         IN  runningLoop(kd, c_x, c_y,
                         IF kd_res_size(set) > 0 THEN [st EXCEPT ![i] = RUNNING] ELSE st,
                         radius, nc, i + 1)

runningIfHasNeighbors(c_x, c_y, n_x, n_y, st, radius, nc, nn) ==
    runningLoop(createKDTree(n_x, n_y, nn), c_x, c_y, st, radius, nc, 0)

----------------------------------------------------------------------------
(* The local maxima scanner.  flm is the flmData of a call, with the fields *)
(* of the C struct; radius is a whole number here, so that the conversions  *)
(* of "yi - radius", "xi - ceil(radius)" and "radius * radius" to int are   *)
(* exact.                                                                   *)

\* flm_data->images[zi][yi*flm_data->xsize+xi]
Pixel(flm, zi, yi, xi) == flm.images[zi][yi * flm.xsize + xi]

isLocalMaxima(flm, cur, sz, ez, sy, cy, ey, sx, cx, ex) ==
    LET rr == flm.radius * flm.radius
    IN  IF \E zi \in sz..ez, yi \in sy..ey, xi \in sx..ex :
              /\ (xi - cx) * (xi - cx) + (yi - cy) * (yi - cy) <= rr
              /\ IF yi <= cy /\ xi <= cx
                 THEN Pixel(flm, zi, yi, xi) > cur
                 ELSE Pixel(flm, zi, yi, xi) >= cur
        THEN 0
        ELSE 1

\* The number of pixels inside the margin that are above threshold and not
\* taken.
calcMaxPeaks(flm) ==
    Cardinality({c \in (0..(flm.zsize - 1)) \X (flm.margin..(flm.ysize - flm.margin - 1))
                           \X (flm.margin..(flm.xsize - flm.margin - 1)) :
                    /\ Pixel(flm, c[1], c[2], c[3]) > flm.threshold
                    /\ flm.taken[c[1]][c[2] * flm.xsize + c[3]] < 1})

\* Mutation: a reported pixel is not marked in taken.
flmVisitUnmarked(flm, s, zi, yi, xi) ==
    IF Pixel(flm, zi, yi, xi) > flm.threshold /\ s.taken[zi][yi * flm.xsize + xi] < 1
    THEN LET sz == IF zi - flm.z_range < 0 THEN 0 ELSE zi - flm.z_range
             ez == IF zi + flm.z_range >= flm.zsize THEN flm.zsize - 1 ELSE zi + flm.z_range
             sy == IF yi - flm.radius < 0 THEN 0 ELSE yi - flm.radius
             ey == IF yi + flm.radius >= flm.ysize THEN flm.ysize - 1 ELSE yi + flm.radius
             sx == IF xi - flm.radius < 0 THEN 0 ELSE xi - flm.radius
             ex == IF xi + flm.radius >= flm.xsize THEN flm.xsize - 1 ELSE xi + flm.radius
             cur == Pixel(flm, zi, yi, xi)
             s1 == IF isLocalMaxima(flm, cur, sz, ez, sy, yi, ey, sx, xi, ex) # 0
                   THEN [s EXCEPT
                            !.out = Append(@, [z |-> flm.z_values[zi], y |-> yi,
                                               x |-> xi, h |-> cur]),
                            !.np = @ + 1]
                   ELSE s
         IN  IF s1.np >= flm.n_peaks THEN [s1 EXCEPT !.returned = TRUE] ELSE s1
    ELSE s

\* The body of the innermost loop of findLocalMaxima at pixel (zi, yi, xi).
\* s holds taken, the entries written to z, y, x and h, np, and whether the
\* function has returned from within the loop.
flmVisit(flm, s, zi, yi, xi) ==
    IF Pixel(flm, zi, yi, xi) > flm.threshold /\ s.taken[zi][yi * flm.xsize + xi] < 1
    THEN LET sz == IF zi - flm.z_range < 0 THEN 0 ELSE zi - flm.z_range
             ez == IF zi + flm.z_range >= flm.zsize THEN flm.zsize - 1 ELSE zi + flm.z_range
             sy == IF yi - flm.radius < 0 THEN 0 ELSE yi - flm.radius
             ey == IF yi + flm.radius >= flm.ysize THEN flm.ysize - 1 ELSE yi + flm.radius
             sx == IF xi - flm.radius < 0 THEN 0 ELSE xi - flm.radius
             ex == IF xi + flm.radius >= flm.xsize THEN flm.xsize - 1 ELSE xi + flm.radius
             cur == Pixel(flm, zi, yi, xi)
             s1 == IF isLocalMaxima(flm, cur, sz, ez, sy, yi, ey, sx, xi, ex) # 0
                   THEN [s EXCEPT
                            !.taken[zi][yi * flm.xsize + xi] = @ + 1,
                            !.out = Append(@, [z |-> flm.z_values[zi], y |-> yi,
                                               x |-> xi, h |-> cur]),
                            !.np = @ + 1]
                   ELSE s
         IN  IF s1.np >= flm.n_peaks THEN [s1 EXCEPT !.returned = TRUE] ELSE s1
    ELSE s

\* The three loops, zi outermost and xi innermost, yi and xi from margin to
\* size - margin - 1.
RECURSIVE flmScan(_, _, _, _, _)
flmScan(flm, s, zi, yi, xi) ==
    IF s.returned \/ zi >= flm.zsize THEN s
    ELSE IF yi >= flm.ysize - flm.margin THEN flmScan(flm, s, zi + 1, flm.margin, flm.margin)
    ELSE IF xi >= flm.xsize - flm.margin THEN flmScan(flm, s, zi, yi + 1, flm.margin)
    ELSE flmScan(flm, flmVisit(flm, s, zi, yi, xi), zi, yi, xi + 1)

\* The result: taken, the entries written, and n_peaks, which is set to np
\* only when the loops run to their end.
findLocalMaxima(flm) ==
    LET s == flmScan(flm, [taken |-> flm.taken, out |-> <<>>, np |-> 0, returned |-> FALSE],
                     0, flm.margin, flm.margin)
    IN  [taken |-> s.taken, out |-> s.out, warned |-> s.returned,
         n_peaks |-> IF s.returned THEN flm.n_peaks ELSE s.np]

----------------------------------------------------------------------------
(* The tree interface: insertions and queries on one struct kdtree *)

NoCall == [op |-> "none", pos |-> <<0, 0>>, range |-> 0, ret |-> 0]

\* clear_results and the free of the dummy head and of the set.
kd_res_free(rset) == NullRes

\* A result set borrows the nodes of the tree.  As every caller in this file
\* does, the caller frees the result set of a query (kd_res_free) before it
\* changes the tree or queries it again: res is the one live result set.
KdInsert(pos) ==
    /\ res.null
    /\ Len(tree.nodes) < MaxPts
    /\ \E r \in {kd_insert(tree, pos, Len(tree.nodes), "ok")} :
           /\ tree' = r.t
           /\ call' = [op |-> "kd_insert", pos |-> pos, range |-> 0, ret |-> r.ret]
    /\ res' = NullRes
    /\ UNCHANGED <<peakVars, flmVars, poolVars>>

\* kd_insert when malloc can return 0: alloc names the allocation of this
\* call that fails.  hyperrect_create is called, and its allocations made,
\* only while tree->rect is 0.
KdInsertAlloc(pos, alloc) ==
    /\ res.null
    /\ Len(tree.nodes) < MaxPts
    /\ alloc \in {"rect", "min", "max"} => tree.rect.null
    /\ \E r \in {kd_insert(tree, pos, Len(tree.nodes), alloc)} :
           /\ tree' = r.t
           /\ call' = [op |-> "kd_insert", pos |-> pos, range |-> 0, ret |-> r.ret,
                       alloc |-> alloc]
    /\ res' = NullRes
    /\ UNCHANGED <<peakVars, flmVars, poolVars>>

KdNearestRange(pos, range) ==
    /\ res.null
    /\ res' = kd_nearest_range(tree, pos, range)
    /\ call' = [op |-> "kd_nearest_range", pos |-> pos, range |-> range, ret |-> 0]
    /\ UNCHANGED <<tree, peakVars, flmVars, poolVars>>

KdNearest(pos) ==
    /\ res.null
    /\ res' = kd_nearest(tree, pos)
    /\ call' = [op |-> "kd_nearest", pos |-> pos, range |-> 0, ret |-> 0]
    /\ UNCHANGED <<tree, peakVars, flmVars, poolVars>>

KdResFree ==
    /\ ~res.null
    /\ res' = kd_res_free(res)
    /\ call' = [op |-> "kd_res_free", pos |-> <<0, 0>>, range |-> 0, ret |-> 0]
    /\ UNCHANGED <<tree, peakVars, flmVars, poolVars>>

KdInit ==
    /\ tree = kd_create(Dim)
    /\ res = NullRes
    /\ call = NoCall

PeakIdle ==
    /\ x = <<>>
    /\ y = <<>>
    /\ status = <<>>
    /\ pcall = [op |-> "none"]

NoFlmCall == [op |-> "none"]

FlmIdle ==
    /\ images = <<>>
    /\ taken = <<>>
    /\ fcall = NoFlmCall

KdIdle ==
    /\ tree = kd_create(Dim)
    /\ res = NullRes
    /\ call = NoCall

----------------------------------------------------------------------------
(* The peak consolidation interface: calls on one peak table *)

PeakIds == 0..(NPeaks - 1)

\* The arrays of n points a caller can pass, n <= MaxNew.
NewPoints == UNION {[0..(n - 1) -> Points] : n \in 0..MaxNew}

Count(pts) == Cardinality(DOMAIN pts)

XOf(pts) == [i \in DOMAIN pts |-> pts[i][1]]
YOf(pts) == [i \in DOMAIN pts |-> pts[i][2]]

NoPeakCall == [op |-> "none"]

MarkDimmerPeaks(h, r_removal, r_neighbors) ==
    /\ pcall = NoPeakCall
    /\ \E r \in {markDimmerPeaks(x, y, h, status, r_removal, r_neighbors, NPeaks)} :
           /\ status' = r.status
           /\ pcall' = [op |-> "markDimmerPeaks", entry |-> status, h |-> h,
                        r_removal |-> r_removal, r_neighbors |-> r_neighbors,
                        removed |-> r.removed]
    /\ UNCHANGED <<x, y, kdVars, flmVars, poolVars>>

MarkLowSignificancePeaks(sig, min_sig, r_neighbors) ==
    /\ pcall = NoPeakCall
    /\ \E r \in {markLowSignificancePeaks(x, y, sig, status, min_sig, r_neighbors, NPeaks)} :
           /\ status' = r.status
           /\ pcall' = [op |-> "markLowSignificancePeaks", entry |-> status, sig |-> sig,
                        min_sig |-> min_sig, r_neighbors |-> r_neighbors,
                        removed |-> r.removed]
    /\ UNCHANGED <<x, y, kdVars, flmVars, poolVars>>

RunningIfHasNeighbors(new, radius) ==
    /\ pcall = NoPeakCall
    /\ status' = runningIfHasNeighbors(x, y, XOf(new), YOf(new), status, radius,
                                       NPeaks, Count(new))
    /\ pcall' = [op |-> "runningIfHasNeighbors", entry |-> status,
                 n_x |-> XOf(new), n_y |-> YOf(new), radius |-> radius]
    /\ UNCHANGED <<x, y, kdVars, flmVars, poolVars>>

\* kd is a tree that createKDTree built, here over the peak table; q are the
\* query points.
NearestKDTree(q, radius) ==
    /\ pcall = NoPeakCall
    /\ \E r \in {nearestKDTree(createKDTree(x, y, NPeaks), XOf(q), YOf(q), radius, Count(q))} :
           pcall' = [op |-> "nearestKDTree", entry |-> status,
                     q_x |-> XOf(q), q_y |-> YOf(q), radius |-> radius,
                     dist |-> r.dist, index |-> r.index]
    /\ UNCHANGED <<x, y, status, kdVars, flmVars, poolVars>>

\* The caller has read the outputs of the last call and goes on; the record
\* of the call is dropped.
PeakCallReturn ==
    /\ pcall # NoPeakCall
    /\ pcall' = NoPeakCall
    /\ UNCHANGED <<x, y, status, kdVars, flmVars, poolVars>>

PeakInit ==
    /\ x \in [PeakIds -> Coord]
    /\ y \in [PeakIds -> Coord]
    /\ status \in [PeakIds -> Status]
    /\ pcall = NoPeakCall

----------------------------------------------------------------------------
(* The scanner interface: scans of one image stack with one taken mask *)

Slices == 0..(ZSize - 1)
PixelIds == 0..(YSize * XSize - 1)

\* The image stacks: all pixels 0 but for at most nb of them.
BrightSets(nb) == {S \in SUBSET (Slices \X PixelIds) : Cardinality(S) <= nb}

ImageOf(S, f) == [zi \in Slices |-> [p \in PixelIds |-> IF <<zi, p>> \in S THEN f[<<zi, p>>] ELSE 0]]

ImageStacks(nb) == UNION {{ImageOf(S, f) : f \in [S -> 1..MaxIntensity]} : S \in BrightSets(nb)}

z_values == [zi \in Slices |-> 10 * zi]

FindLocalMaxima(radius, threshold, z_range, margin, n_peaks) ==
    /\ fcall = NoFlmCall
    /\ LET flm == [margin |-> margin, n_peaks |-> n_peaks, z_range |-> z_range,
                   xsize |-> XSize, ysize |-> YSize, zsize |-> ZSize,
                   radius |-> radius, threshold |-> threshold,
                   z_values |-> z_values, taken |-> taken, images |-> images]
       IN  \E r \in {findLocalMaxima(flm)} :
              /\ taken' = r.taken
              /\ fcall' = [op |-> "findLocalMaxima", flm |-> flm, out |-> r.out,
                           n_peaks |-> r.n_peaks, warned |-> r.warned]
    /\ UNCHANGED <<images, kdVars, peakVars, poolVars>>

\* The caller has read the maxima of the last scan and goes on; the record of
\* the call is dropped.
FlmCallReturn ==
    /\ fcall # NoFlmCall
    /\ fcall' = NoFlmCall
    /\ UNCHANGED <<images, taken, kdVars, peakVars, poolVars>>

\* The number of pixels marked in a taken mask.
Claimed(tk) == Cardinality({c \in Slices \X PixelIds : tk[c[1]][c[2]] >= 1})

\* The number of pixels of an image stack above 0.
Bright(im) == Cardinality({c \in Slices \X PixelIds : im[c[1]][c[2]] > 0})

\* Between two scans the caller writes the next image stack into
\* flm_data->images, a pixel at a time, and keeps flm_data->taken.
StorePixel(zi, p, v) ==
    /\ fcall = NoFlmCall
    /\ Claimed(taken) < MaxClaimed
    /\ images[zi][p] # v
    /\ images' = [images EXCEPT ![zi][p] = v]
    /\ Bright(images') <= MaxBright
    /\ UNCHANGED <<taken, fcall, kdVars, peakVars, poolVars>>

FlmInit ==
    /\ images \in ImageStacks(MaxBright)
    /\ taken = [zi \in Slices |-> [p \in PixelIds |-> 0]]
    /\ fcall = NoFlmCall

----------------------------------------------------------------------------
(* The pooled res_node allocator (USE_LIST_NODE_ALLOCATOR, pthreads):      *)
(* threads that call alloc_resnode and free_resnode, as rlist_insert,      *)
(* clear_results and kd_res_free do for the result sets of their queries.  *)
(* Each action is one statement of the two functions.                      *)

Threads == 1..NThreads
ResNodes == 1..MaxNodes

\* Mutation: the build without pthreads, where the lock is no statement.
MutexIgnored(m) == TRUE

\* pthread_mutex_lock(&alloc_mutex) returns when the mutex is unlocked.
MutexFree(m) == m = NULL

Idle(t) == thr[t].pc = "idle"

\* alloc_resnode is called.
AllocCall(t) ==
    /\ Idle(t)
    /\ thr' = [thr EXCEPT ![t].pc = "a_lock"]
    /\ UNCHANGED <<free_nodes, alloc_mutex, rnext, heap, kdVars, peakVars, flmVars>>

AllocLock(t) ==
    /\ thr[t].pc = "a_lock"
    /\ MutexFree(alloc_mutex)
    /\ alloc_mutex' = t
    /\ thr' = [thr EXCEPT ![t].pc = "a_test"]
    /\ UNCHANGED <<free_nodes, rnext, heap, kdVars, peakVars, flmVars>>

\* "if(!free_nodes) node = malloc(sizeof *node)": a new res_node, its next
\* not initialized, or 0.
AllocMalloc(t) ==
    /\ thr[t].pc = "a_test"
    /\ free_nodes = NULL
    /\ \/ /\ heap < MaxNodes
          /\ heap' = heap + 1
          /\ \E garbage \in {NULL} \cup ResNodes : rnext' = [rnext EXCEPT ![heap + 1] = garbage]
          /\ thr' = [thr EXCEPT ![t].pc = "a_unlock", ![t].node = heap + 1]
       \/ /\ thr' = [thr EXCEPT ![t].pc = "a_unlock", ![t].node = NULL]
          /\ UNCHANGED <<heap, rnext>>
    /\ UNCHANGED <<free_nodes, alloc_mutex, kdVars, peakVars, flmVars>>

\* "else node = free_nodes"
AllocTake(t) ==
    /\ thr[t].pc = "a_test"
    /\ free_nodes # NULL
    /\ thr' = [thr EXCEPT ![t].pc = "a_pop", ![t].node = free_nodes]
    /\ UNCHANGED <<free_nodes, alloc_mutex, rnext, heap, kdVars, peakVars, flmVars>>

\* "free_nodes = free_nodes->next"
AllocPop(t) ==
    /\ thr[t].pc = "a_pop"
    /\ free_nodes # NULL
    /\ free_nodes' = rnext[free_nodes]
    /\ thr' = [thr EXCEPT ![t].pc = "a_clear"]
    /\ UNCHANGED <<alloc_mutex, rnext, heap, kdVars, peakVars, flmVars>>

\* "node->next = 0"
AllocClear(t) ==
    /\ thr[t].pc = "a_clear"
    /\ rnext' = [rnext EXCEPT ![thr[t].node] = NULL]
    /\ thr' = [thr EXCEPT ![t].pc = "a_unlock"]
    /\ UNCHANGED <<free_nodes, alloc_mutex, heap, kdVars, peakVars, flmVars>>

\* pthread_mutex_unlock and "return node": the caller holds the node.
AllocUnlock(t) ==
    /\ thr[t].pc = "a_unlock"
    /\ alloc_mutex' = NULL
    /\ thr' = [thr EXCEPT ![t].pc = "idle", ![t].node = NULL,
                          ![t].held = @ \cup ({thr[t].node} \ {NULL})]
    /\ UNCHANGED <<free_nodes, rnext, heap, kdVars, peakVars, flmVars>>

\* free_resnode(node) is called on a res_node of one of the thread's result
\* sets.
FreeCall(t, node) ==
    /\ Idle(t)
    /\ node \in thr[t].held
    /\ thr' = [thr EXCEPT ![t].pc = "f_lock", ![t].node = node, ![t].held = @ \ {node}]
    /\ UNCHANGED <<free_nodes, alloc_mutex, rnext, heap, kdVars, peakVars, flmVars>>

FreeLock(t) ==
    /\ thr[t].pc = "f_lock"
    /\ MutexFree(alloc_mutex)
    /\ alloc_mutex' = t
    /\ thr' = [thr EXCEPT ![t].pc = "f_link"]
    /\ UNCHANGED <<free_nodes, rnext, heap, kdVars, peakVars, flmVars>>

\* "node->next = free_nodes"
FreeLink(t) ==
    /\ thr[t].pc = "f_link"
    /\ rnext' = [rnext EXCEPT ![thr[t].node] = free_nodes]
    /\ thr' = [thr EXCEPT ![t].pc = "f_push"]
    /\ UNCHANGED <<free_nodes, alloc_mutex, heap, kdVars, peakVars, flmVars>>

\* "free_nodes = node"
FreePush(t) ==
    /\ thr[t].pc = "f_push"
    /\ free_nodes' = thr[t].node
    /\ thr' = [thr EXCEPT ![t].pc = "f_unlock"]
    /\ UNCHANGED <<alloc_mutex, rnext, heap, kdVars, peakVars, flmVars>>

FreeUnlock(t) ==
    /\ thr[t].pc = "f_unlock"
    /\ alloc_mutex' = NULL
    /\ thr' = [thr EXCEPT ![t].pc = "idle", ![t].node = NULL]
    /\ UNCHANGED <<free_nodes, rnext, heap, kdVars, peakVars, flmVars>>

\* "static struct res_node *free_nodes;" and PTHREAD_MUTEX_INITIALIZER.
PoolInit ==
    /\ free_nodes = NULL
    /\ alloc_mutex = NULL
    /\ rnext = [n \in ResNodes |-> NULL]
    /\ heap = 0
    /\ thr = [t \in Threads |-> [pc |-> "idle", node |-> NULL, held |-> {}]]

Init == KdInit /\ PeakIdle /\ FlmIdle /\ PoolInit

Next ==
    \/ \E pos \in Points : KdInsert(pos)
    \/ \E pos \in QPoints, range \in Ranges : KdNearestRange(pos, range)
    \/ \E pos \in QPoints : KdNearest(pos)
    \/ KdResFree

Spec == Init /\ [][Next]_vars

Heights == [PeakIds -> 1..MaxHeight]
Sigs == [PeakIds -> 1..MaxSig]

InitPeaks == KdIdle /\ PeakInit /\ FlmIdle /\ PoolInit

NextPeaks ==
    \/ \E h \in Heights, r_removal \in Ranges, r_neighbors \in Ranges :
          MarkDimmerPeaks(h, r_removal, r_neighbors)
    \/ \E sig \in Sigs, min_sig \in 1..MaxSig, r_neighbors \in Ranges :
          MarkLowSignificancePeaks(sig, min_sig, r_neighbors)
    \/ \E new \in NewPoints, radius \in Ranges : RunningIfHasNeighbors(new, radius)
    \/ \E q \in NewPoints, radius \in Ranges : NearestKDTree(q, radius)
    \/ PeakCallReturn

SpecPeaks == InitPeaks /\ [][NextPeaks]_vars

InitFlm == KdIdle /\ PeakIdle /\ FlmInit /\ PoolInit

NextFlm ==
    \/ \E radius \in Ranges, threshold \in 0..(MaxIntensity - 1), z_range \in Slices,
          margin \in 0..MaxMargin, n_peaks \in 0..MaxNPeaks :
          FindLocalMaxima(radius, threshold, z_range, margin, n_peaks)
    \/ FlmCallReturn

SpecFlm == InitFlm /\ [][NextFlm]_vars

\* The tree when allocations can fail.
NextAlloc ==
    \/ \E pos \in Points, alloc \in AllocOutcomes : KdInsertAlloc(pos, alloc)
    \/ \E pos \in QPoints : KdNearest(pos)
    \/ KdResFree

SpecAlloc == Init /\ [][NextAlloc]_vars

\* Scans of a sequence of image stacks that share one taken mask.
NextScans ==
    \/ \E zi \in Slices, p \in PixelIds, v \in 0..MaxIntensity : StorePixel(zi, p, v)
    \/ \E radius \in Ranges, threshold \in 0..(MaxIntensity - 1), z_range \in Slices,
          margin \in 0..MaxMargin, n_peaks \in 0..MaxNPeaks :
          FindLocalMaxima(radius, threshold, z_range, margin, n_peaks)
    \/ FlmCallReturn

SpecScans == InitFlm /\ [][NextScans]_vars

\* Threads on the pooled allocator.
InitPool == KdIdle /\ PeakIdle /\ FlmIdle /\ PoolInit

NextPool ==
    \E t \in Threads :
        \/ AllocCall(t)
        \/ AllocLock(t)
        \/ AllocMalloc(t)
        \/ AllocTake(t)
        \/ AllocPop(t)
        \/ AllocClear(t)
        \/ AllocUnlock(t)
        \/ \E node \in ResNodes : FreeCall(t, node)
        \/ FreeLock(t)
        \/ FreeLink(t)
        \/ FreePush(t)
        \/ FreeUnlock(t)

SpecPool == InitPool /\ [][NextPool]_vars

----------------------------------------------------------------------------
(* Properties of the tree queries *)

NodeIds == 1..Len(tree.nodes)

\* The nodes listed in the result set, in list order.
ResItems == [i \in 1..Len(res.rlist) |-> res.rlist[i].item]

ResItemSet == {ResItems[i] : i \in 1..Len(res.rlist)}

InRange(pos, range) == {n \in NodeIds : DistSq(tree.nodes[n].pos, pos) <= SQ(range)}

MinDistSq(pos) ==
    CHOOSE d \in {DistSq(tree.nodes[n].pos, pos) : n \in NodeIds} :
        \A n \in NodeIds : d <= DistSq(tree.nodes[n].pos, pos)

Nearest(pos) == {n \in NodeIds : DistSq(tree.nodes[n].pos, pos) = MinDistSq(pos)}

\* C1: kd_nearest_range(q, r) returns exactly the inserted points whose
\* squared distance to q is at most r*r, each once, and kd_res_size is their
\* number.
C1_RangeExact ==
    call.op = "kd_nearest_range" =>
        /\ ResItemSet = InRange(call.pos, call.range)
        /\ Len(res.rlist) = Cardinality(ResItemSet)
        /\ kd_res_size(res) = Cardinality(InRange(call.pos, call.range))

\* C2: on a non-empty tree kd_nearest(q) returns a result set of exactly one
\* entry, an inserted point at the minimum squared distance to q.
C2_NearestIsMin ==
    (call.op = "kd_nearest" /\ tree.root # NULL) =>
        /\ ~res.null
        /\ kd_res_size(res) = 1
        /\ Len(res.rlist) = 1
        /\ ResItems[1] \in Nearest(call.pos)

\* C2 witness: a search of a full tree that ends at a point other than the
\* root and the last inserted one, with a farther subtree left unvisited.
C2_Witness ==
    /\ call.op = "kd_nearest"
    /\ Len(tree.nodes) = MaxPts
    /\ ~res.null
    /\ ResItems[1] \notin {tree.root, MaxPts}
    /\ Cardinality({tree.nodes[n].pos : n \in NodeIds}) = MaxPts

\* C3 as stated: among several points at the minimum distance kd_nearest
\* returns the one inserted first.
C3_FirstInsertedWins ==
    (call.op = "kd_nearest" /\ tree.root # NULL /\ Cardinality(Nearest(call.pos)) >= 2) =>
        \A n \in Nearest(call.pos) : ResItems[1] <= n

\* C3 amended: kd_nearest returns one of the points at the minimum distance,
\* and the first inserted point (the root) whenever it is one of them.
C3_RootWinsTies ==
    (call.op = "kd_nearest" /\ tree.root # NULL /\ Cardinality(Nearest(call.pos)) >= 2) =>
        /\ ResItems[1] \in Nearest(call.pos)
        /\ tree.root \in Nearest(call.pos) => ResItems[1] = tree.root

\* C3 witness: a tie between the root and a later point, won by the root.
C3_Witness ==
    /\ call.op = "kd_nearest"
    /\ tree.root # NULL
    /\ Cardinality(Nearest(call.pos)) >= 2
    /\ tree.root \in Nearest(call.pos)
    /\ ResItems[1] = tree.root
    /\ \E n \in Nearest(call.pos) : tree.nodes[n].pos # tree.nodes[tree.root].pos

----------------------------------------------------------------------------
(* Properties of the insertions *)

RectContains(rect, pos) ==
    /\ ~rect.null
    /\ \A i \in 1..Dim : rect.min[i] <= pos[i] /\ pos[i] <= rect.max[i]

\* A step from rect r1 to rect r2 moves no min upward and no max downward.
RectNotShrunk(r1, r2) ==
    ~r1.null =>
        /\ ~r2.null
        /\ \A i \in 1..Dim : r2.min[i] <= r1.min[i] /\ r1.max[i] <= r2.max[i]

\* C11: after every kd_insert call, succeeded or failed on an allocation,
\* tree->rect contains every point stored in the tree, and the call moved no
\* min of it upward and no max downward.
C11_RectContainsAll ==
    [][call'.op = "kd_insert" =>
          /\ \A n \in 1..Len(tree'.nodes) : RectContains(tree'.rect, tree'.nodes[n].pos)
          /\ RectNotShrunk(tree.rect, tree'.rect)]_vars

\* C12: a kd_insert call in which an allocation fails returns non-zero and
\* leaves the tree and its rect as they were before the call.
C12_FailedInsertDropped ==
    [][(call'.op = "kd_insert" /\ call'.alloc # "ok") =>
          /\ call'.ret # 0
          /\ tree' = tree]_vars

\* The nodes of the subtree below pointer n.
RECURSIVE Subtree(_, _)
Subtree(t, n) ==
    IF n = NULL THEN {}
    ELSE {n} \cup Subtree(t, t.nodes[n].left) \cup Subtree(t, t.nodes[n].right)

\* The nodes form one tree below the root: each is reached, and by one path.
IsTree(t) ==
    /\ Subtree(t, t.root) = 1..Len(t.nodes)
    /\ \A n \in 1..Len(t.nodes) :
           /\ Subtree(t, t.nodes[n].left) \cap Subtree(t, t.nodes[n].right) = {}
           /\ n \notin Subtree(t, t.nodes[n].left) \cup Subtree(t, t.nodes[n].right)

AxesCycle(t) ==
    /\ t.root # NULL => t.nodes[t.root].dir = 0
    /\ \A n \in 1..Len(t.nodes) :
           \A c \in {t.nodes[n].left, t.nodes[n].right} \ {NULL} :
               t.nodes[c].dir = (t.nodes[n].dir + 1) % t.dim

Partitioned(t) ==
    \A n \in 1..Len(t.nodes) :
        LET d == t.nodes[n].dir + 1
        IN  /\ \A m \in Subtree(t, t.nodes[n].left) : t.nodes[m].pos[d] < t.nodes[n].pos[d]
            /\ \A m \in Subtree(t, t.nodes[n].right) : t.nodes[m].pos[d] >= t.nodes[n].pos[d]

\* The call added one node, with the point and the payload of the call, and
\* changed the point and the payload of no other node.
OneNodeAdded(t1, t2, pos, data) ==
    /\ Len(t2.nodes) = Len(t1.nodes) + 1
    /\ t2.nodes[Len(t2.nodes)].pos = pos
    /\ t2.nodes[Len(t2.nodes)].data = data
    /\ \A n \in 1..Len(t1.nodes) :
           /\ t2.nodes[n].pos = t1.nodes[n].pos
           /\ t2.nodes[n].data = t1.nodes[n].data

\* C16: after every successful kd_insert the root splits on axis 0, a child
\* on its parent's axis + 1 mod k, the left subtree of a node holds only
\* points strictly below it on its axis and the right subtree only points at
\* or above it, and the tree holds one node per successful insertion, each
\* with the point and the payload it was inserted with.
C16_PartitionInvariant ==
    [][(call'.op = "kd_insert" /\ call'.ret = 0) =>
          /\ IsTree(tree')
          /\ AxesCycle(tree')
          /\ Partitioned(tree')
          /\ OneNodeAdded(tree, tree', call'.pos, Len(tree.nodes))]_vars

\* C16 witness: a full tree of depth 3, a grandchild of the root back on
\* axis 0, with a point equal to the root's on axis 0 in the right subtree
\* and a point in a left subtree.
C16_Witness ==
    /\ call.op = "kd_insert"
    /\ call.ret = 0
    /\ Len(tree.nodes) = MaxPts
    /\ \E n \in (1..Len(tree.nodes)) \ {tree.root} : tree.nodes[n].dir = 0
    /\ \E m \in Subtree(tree, tree.nodes[tree.root].right) :
           tree.nodes[m].pos[1] = tree.nodes[tree.root].pos[1]
    /\ \E n \in 1..Len(tree.nodes) : tree.nodes[n].left # NULL

----------------------------------------------------------------------------
(* Properties of the peak consolidation calls *)

PeakPos(i) == <<x[i], y[i]>>

\* Peak i was set to ERROR by the last call.
Removed(i) == pcall.entry[i] # ERROR /\ status[i] = ERROR

\* C4: markDimmerPeaks sets a peak that is not ERROR on entry to ERROR if a
\* peak at distance < removal_radius is strictly brighter, and leaves it
\* non-ERROR if no peak at distance <= removal_radius is strictly brighter;
\* of a group of peaks at pairwise distance < removal_radius with distinct
\* heights exactly the brightest stays non-ERROR.
C4_DimmerMarked ==
    pcall.op = "markDimmerPeaks" =>
        /\ \A i \in PeakIds : pcall.entry[i] # ERROR =>
              /\ (\E k \in PeakIds :
                     /\ DistSq(PeakPos(k), PeakPos(i)) < SQ(pcall.r_removal)
                     /\ pcall.h[k] > pcall.h[i]) => status[i] = ERROR
              /\ ~(\E k \in PeakIds :
                     /\ DistSq(PeakPos(k), PeakPos(i)) <= SQ(pcall.r_removal)
                     /\ pcall.h[k] > pcall.h[i]) => status[i] # ERROR
        /\ ( /\ \A i, k \in PeakIds :
                   /\ DistSq(PeakPos(k), PeakPos(i)) < SQ(pcall.r_removal)
                   /\ pcall.entry[i] # ERROR
                   /\ i # k => pcall.h[i] # pcall.h[k] )
           => \E b \in PeakIds :
                /\ \A k \in PeakIds : pcall.h[k] <= pcall.h[b]
                /\ \A k \in PeakIds : status[k] # ERROR <=> k = b

\* C4 witness: three peaks of heights 3, 2, 1 at pairwise distance below the
\* removal radius, none ERROR on entry; the two dimmer ones are ERROR after.
C4_Witness ==
    /\ pcall.op = "markDimmerPeaks"
    /\ \A i \in PeakIds : pcall.entry[i] # ERROR
    /\ \A i, k \in PeakIds : DistSq(PeakPos(k), PeakPos(i)) < SQ(pcall.r_removal)
    /\ \A i, k \in PeakIds : i # k => pcall.h[i] # pcall.h[k] /\ PeakPos(i) # PeakPos(k)
    /\ Cardinality({i \in PeakIds : status[i] = ERROR}) = NPeaks - 1

\* C5 as stated: after markDimmerPeaks or markLowSignificancePeaks a peak that
\* was CONVERGED on entry is still CONVERGED exactly if the call did not set
\* it to ERROR and no peak the call set to ERROR lies within neighbor_radius.
C5_RefitPropagated ==
    pcall.op \in {"markDimmerPeaks", "markLowSignificancePeaks"} =>
        \A k \in PeakIds : pcall.entry[k] = CONVERGED =>
            /\ status[k] = CONVERGED <=>
                  /\ ~Removed(k)
                  /\ ~\E i \in PeakIds :
                        /\ Removed(i)
                        /\ DistSq(PeakPos(i), PeakPos(k)) <= SQ(pcall.r_neighbors)
            /\ status[k] \in {CONVERGED, RUNNING, ERROR}

\* C6: every change a call makes to a status is CONVERGED -> RUNNING,
\* RUNNING -> ERROR or CONVERGED -> ERROR; so ERROR is never left and
\* CONVERGED never entered; runningIfHasNeighbors and nearestKDTree set no
\* status to ERROR.
StatusStep ==
    \A i \in PeakIds : status'[i] # status[i] =>
        /\ <<status[i], status'[i]>> \in
              {<<CONVERGED, RUNNING>>, <<RUNNING, ERROR>>, <<CONVERGED, ERROR>>}
        /\ pcall'.op \in {"runningIfHasNeighbors", "nearestKDTree"} => status'[i] # ERROR

C6_StatusTransitions == [][StatusStep]_vars

\* C6 witness: a call that found a peak ERROR, set a CONVERGED peak to ERROR
\* and another CONVERGED peak to RUNNING.
C6_Witness ==
    /\ pcall.op \in {"markDimmerPeaks", "markLowSignificancePeaks"}
    /\ \E i, j, k \in PeakIds :
          /\ pcall.entry[i] = ERROR /\ status[i] = ERROR
          /\ pcall.entry[j] = CONVERGED /\ status[j] = ERROR
          /\ pcall.entry[k] = CONVERGED /\ status[k] = RUNNING

QueryIds == DOMAIN pcall.q_x

QueryPos(i) == <<pcall.q_x[i], pcall.q_y[i]>>

\* C8 as stated: nearestKDTree gives distance -1.0 and index -1 for a query
\* point with no index point within max_radius, and else the minimum distance
\* to an index point and the index of an index point at that distance.
C8_NearestMatch ==
    pcall.op = "nearestKDTree" =>
        \A i \in QueryIds :
            LET within == {k \in PeakIds :
                              DistSq(PeakPos(k), QueryPos(i)) <= SQ(pcall.radius)}
            IN  IF within = {}
                THEN pcall.dist[i] = Real(-1) /\ pcall.index[i] = -1
                ELSE /\ pcall.index[i] \in within
                     /\ \A k \in PeakIds :
                           DistSq(PeakPos(pcall.index[i]), QueryPos(i))
                               <= DistSq(PeakPos(k), QueryPos(i))
                     /\ pcall.dist[i] =
                           Sqrt(DistSq(PeakPos(pcall.index[i]), QueryPos(i)))

NewIds == DOMAIN pcall.n_x

NewPos(j) == <<pcall.n_x[j], pcall.n_y[j]>>

\* C9 as stated: after runningIfHasNeighbors a peak that was CONVERGED on
\* entry is RUNNING exactly if a new peak lies within radius of it; RUNNING and
\* ERROR peaks keep their status; without new peaks no status changes.
C9_RunningIfNewNeighbor ==
    pcall.op = "runningIfHasNeighbors" =>
        /\ \A i \in PeakIds :
              /\ pcall.entry[i] = CONVERGED =>
                    (status[i] = RUNNING <=>
                        \E j \in NewIds : DistSq(NewPos(j), PeakPos(i)) <= SQ(pcall.radius))
              /\ pcall.entry[i] \in {RUNNING, ERROR} => status[i] = pcall.entry[i]
              /\ status[i] \in {pcall.entry[i], RUNNING}
        /\ NewIds = {} => status = pcall.entry

\* C10: markLowSignificancePeaks sets to ERROR exactly the peaks that were
\* not ERROR on entry and have significance <= min_significance.
C10_LowSignificanceMarked ==
    pcall.op = "markLowSignificancePeaks" =>
        {i \in PeakIds : Removed(i)} =
            {i \in PeakIds : pcall.entry[i] # ERROR /\ pcall.sig[i] <= pcall.min_sig}

\* C10 witness: a call that removed a peak, kept a more significant peak next
\* to it and passed over a peak that was ERROR already.
C10_Witness ==
    /\ pcall.op = "markLowSignificancePeaks"
    /\ \E i, j, k \in PeakIds :
          /\ Removed(i)
          /\ pcall.entry[j] # ERROR /\ status[j] # ERROR /\ PeakPos(j) = PeakPos(i)
          /\ pcall.entry[k] = ERROR /\ pcall.sig[k] <= pcall.min_sig

\* C15: markDimmerPeaks and markLowSignificancePeaks return the number of
\* peaks they set to ERROR, which were not ERROR on entry; a peak that was
\* ERROR on entry stays ERROR and is not counted.
C15_RemovedCount ==
    pcall.op \in {"markDimmerPeaks", "markLowSignificancePeaks"} =>
        /\ pcall.removed = Cardinality({i \in PeakIds : Removed(i)})
        /\ \A i \in PeakIds : pcall.entry[i] = ERROR => status[i] = ERROR

\* C15 witness: markDimmerPeaks removes a peak while another, ERROR on entry,
\* lies on a brighter peak and is not counted.
C15_Witness ==
    /\ pcall.op = "markDimmerPeaks"
    /\ pcall.removed = 1
    /\ \E i, k \in PeakIds :
           /\ pcall.entry[i] = ERROR
           /\ PeakPos(k) = PeakPos(i)
           /\ pcall.h[k] > pcall.h[i]
           /\ pcall.r_removal >= 1

----------------------------------------------------------------------------
(* Properties of the local maxima scanner *)

\* The pixels (zi, yi, xi) findLocalMaxima looks at as candidates.
Scanned(flm) ==
    {c \in Slices \X (0..(YSize - 1)) \X (0..(XSize - 1)) :
        /\ flm.margin <= c[2] /\ c[2] < flm.ysize - flm.margin
        /\ flm.margin <= c[3] /\ c[3] < flm.xsize - flm.margin}

Reported(c) ==
    \E i \in 1..Len(fcall.out) :
        /\ fcall.out[i].z = fcall.flm.z_values[c[1]]
        /\ fcall.out[i].y = c[2]
        /\ fcall.out[i].x = c[3]

\* Pixel d lies in the cylinder around pixel c.
InCylinder(flm, c, d) ==
    /\ d[1] >= c[1] - flm.z_range /\ d[1] <= c[1] + flm.z_range
    /\ SQ(d[2] - c[2]) + SQ(d[3] - c[3]) <= SQ(flm.radius)

\* Pixels a and b of one slice are within radius of each other, equally
\* bright, above threshold, not taken, and brighter than every other pixel
\* of their cylinders.
TiedPair(flm, a, b) ==
    /\ a # b
    /\ a[1] = b[1]
    /\ InCylinder(flm, a, b)
    /\ Pixel(flm, a[1], a[2], a[3]) = Pixel(flm, b[1], b[2], b[3])
    /\ Pixel(flm, a[1], a[2], a[3]) > flm.threshold
    /\ flm.taken[a[1]][a[2] * flm.xsize + a[3]] < 1
    /\ flm.taken[b[1]][b[2] * flm.xsize + b[3]] < 1
    /\ \A d \in Slices \X (0..(YSize - 1)) \X (0..(XSize - 1)) :
          (d # a /\ d # b /\ (InCylinder(flm, a, d) \/ InCylinder(flm, b, d)))
              => Pixel(flm, d[1], d[2], d[3]) < Pixel(flm, a[1], a[2], a[3])

\* (y, x) of a is lexicographically larger than that of b.
LexLarger(a, b) == a[2] > b[2] \/ (a[2] = b[2] /\ a[3] > b[3])

\* C7 as stated: of two equally bright pixels within radius of each other in
\* one slice, otherwise the brightest of their neighbourhoods, a scan that is
\* not cut short reports exactly one, the one of lexicographically larger
\* (y, x).
C7_TieBreak ==
    (fcall.op = "findLocalMaxima" /\ ~fcall.warned) =>
        \A a, b \in Scanned(fcall.flm) :
            (TiedPair(fcall.flm, a, b) /\ LexLarger(a, b))
                => (Reported(a) /\ ~Reported(b))

\* C13: findLocalMaxima writes at most flm_data->n_peaks entries to z, y, x
\* and h, and it returns from within the scan, with the entries written so
\* far, exactly when that many are written.
C13_AtMostNPeaks ==
    fcall.op = "findLocalMaxima" =>
        /\ Len(fcall.out) <= fcall.flm.n_peaks
        /\ fcall.warned => Len(fcall.out) = fcall.flm.n_peaks

\* The pixels of the entries a scan wrote, in the order written.
OutPixels(fc) ==
    [i \in 1..Len(fc.out) |->
        <<CHOOSE zi \in Slices : fc.flm.z_values[zi] = fc.out[i].z, fc.out[i].y, fc.out[i].x>>]

TakenAt(tk, c) == tk[c[1]][c[2] * XSize + c[3]]

AllPixels == Slices \X (0..(YSize - 1)) \X (0..(XSize - 1))

\* The scan recorded in fc, which left the mask tk, reported only pixels that
\* were not taken and above threshold, each once, marked them, and changed no
\* other entry of the mask.
ScanClaims(fc, tk) ==
    LET op == OutPixels(fc)
        reported == {op[i] : i \in 1..Len(fc.out)}
    IN  /\ Cardinality(reported) = Len(fc.out)
        /\ \A c \in reported :
               /\ TakenAt(fc.flm.taken, c) < 1
               /\ Pixel(fc.flm, c[1], c[2], c[3]) > fc.flm.threshold
               /\ TakenAt(tk, c) >= 1
        /\ \A c \in AllPixels \ reported : TakenAt(tk, c) = TakenAt(fc.flm.taken, c)

\* A scan of the same stack with the mask tk that the scan recorded in fc
\* left reports nothing, be it with the n_peaks that scan left in flm_data or
\* with n_peaks set to the largest capacity again.
RescanEmpty(fc, tk) ==
    \A n \in {fc.n_peaks, MaxNPeaks} :
        findLocalMaxima([fc.flm EXCEPT !.taken = tk, !.n_peaks = n]).out = <<>>

\* C14: over the scans of a sequence of image stacks that share one taken
\* mask no pixel is reported twice: a scan reports only pixels not taken and
\* above threshold, marks each, reports no taken pixel, no step unmarks a
\* pixel, and a scan that ran to its end leaves a mask with which a second
\* scan of the same stack reports nothing.
C14_ReportedOnce ==
    [][/\ \A c \in AllPixels : TakenAt(taken', c) >= TakenAt(taken, c)
       /\ (fcall.op = "none" /\ fcall'.op = "findLocalMaxima") =>
              /\ ScanClaims(fcall', taken')
              /\ ~fcall'.warned => RescanEmpty(fcall', taken')]_vars

\* C14 witness: a scan that reports a pixel while one taken pixel has gone
\* dark since it was reported (the stack has changed) and another taken
\* pixel, above threshold and a local maximum of the present stack, is left
\* out.
C14_Witness ==
    /\ fcall.op = "findLocalMaxima"
    /\ ~fcall.warned
    /\ Len(fcall.out) >= 1
    /\ \E c \in AllPixels :
           /\ TakenAt(fcall.flm.taken, c) >= 1
           /\ Pixel(fcall.flm, c[1], c[2], c[3]) = 0
    /\ \E c \in Scanned(fcall.flm) :
           /\ TakenAt(fcall.flm.taken, c) >= 1
           /\ Pixel(fcall.flm, c[1], c[2], c[3]) > fcall.flm.threshold
           /\ findLocalMaxima([fcall.flm EXCEPT !.taken = [zi \in Slices |-> [p \in PixelIds |-> 0]],
                                                !.threshold = Pixel(fcall.flm, c[1], c[2], c[3]) - 1]).out # <<>>
           /\ ~Reported(c)

----------------------------------------------------------------------------
(* Properties of the pooled allocator *)

\* The res_nodes on the list from pointer n, followed for at most k links.
RECURSIVE ListFrom(_, _)
ListFrom(n, k) ==
    IF n = NULL \/ k = 0 THEN <<>> ELSE <<n>> \o ListFrom(rnext[n], k - 1)

FreeList == ListFrom(free_nodes, MaxNodes + 1)

FreeSet == {FreeList[i] : i \in 1..Len(FreeList)}

\* The res_node a thread has in hand inside alloc_resnode or free_resnode.
InHand(t) == {thr[t].node} \ {NULL}

\* A thread is between taking the head of the list and unlinking it, or
\* between linking its node and releasing the lock.
Relinking(t) == thr[t].pc \in {"a_pop", "f_unlock"}

\* C17: with the mutex in use, in every interleaving of alloc_resnode and
\* free_resnode calls of the threads the free list is a list without
\* repetition of res_nodes, no res_node is held by two threads, a res_node a
\* thread holds or has in hand is not on the free list (but for the one the
\* thread under the lock is linking or unlinking), and every res_node malloc
\* returned is held, in hand or on the free list.
C17_PoolConsistent ==
    /\ Len(FreeList) <= MaxNodes
    /\ Cardinality(FreeSet) = Len(FreeList)
    /\ \A t, u \in Threads :
           t # u => (thr[t].held \cup InHand(t)) \cap (thr[u].held \cup InHand(u)) = {}
    /\ \A t \in Threads :
           /\ thr[t].held \cap InHand(t) = {}
           /\ thr[t].held \cap FreeSet = {}
           /\ ~Relinking(t) => InHand(t) \cap FreeSet = {}
    /\ \A n \in 1..heap :
           n \in FreeSet \/ \E t \in Threads : n \in thr[t].held \cup InHand(t)
    /\ FreeSet \subseteq 1..heap

\* C17 witness: a thread waits for the lock in alloc_resnode while another
\* thread under the lock pushes a res_node on a free list that is not empty.
C17_Witness ==
    \E t, u \in Threads :
        /\ thr[t].pc = "a_lock"
        /\ thr[u].pc = "f_push"
        /\ alloc_mutex = u
        /\ free_nodes # NULL

====
